---- MODULE Spec2Model ----
(***************************************************************************)
(* google-apps-radius: a RADIUS server (lib/index.js, createServer) that   *)
(* answers Access-Request datagrams by checking that the user name is an   *)
(* e-mail address of an accepted domain and then logging in to the         *)
(* upstream SMTP server with the supplied credentials (authenticate).      *)
(*                                                                         *)
(* Text is a sequence of one-character strings, so that the regular        *)
(* expression, split, indexOf and join are computed as the code computes   *)
(* them.  The fixed texts of the messages are kept as one element each.    *)
(*                                                                         *)
(* Node runs every handler to completion: each action below is one         *)
(* handler (the 'message' listener, a callback of the SMTP connection, a   *)
(* completion callback of server.send).                                    *)
(***************************************************************************)
EXTENDS Integers, Sequences, FiniteSets, TLC

VARIABLES
    options,    \* the options object given to createServer
    server,     \* "listening", or "crashed" after an uncaught exception
    reqs,       \* the datagrams received so far: [msg, rinfo], in order
    conn,       \* per datagram: the stage of its SMTPConnection
    pending,    \* per datagram: the server.send callbacks not yet called
    log         \* per datagram: what its handlers did, in order

vars == <<options, server, reqs, conn, pending, log>>

\* The number of datagrams the model receives.
MaxDatagrams == 2

(***************************************************************************)
(* Text                                                                    *)
(***************************************************************************)

Lower == {"a", "b", "c", "d", "e", "f", "g", "h", "i", "j", "k", "l", "m",
          "n", "o", "p", "q", "r", "s", "t", "u", "v", "w", "x", "y", "z"}

Upper == {"A", "B", "C", "D", "E", "F", "G", "H", "I", "J", "K", "L", "M",
          "N", "O", "P", "Q", "R", "S", "T", "U", "V", "W", "X", "Y", "Z"}

Digit == {"0", "1", "2", "3", "4", "5", "6", "7", "8", "9"}

\* [-a-zA-Z0-9.] : the class of the local part
LocalClass == Lower \cup Upper \cup Digit \cup {"-", "."}

\* [-a-zA-Z0-9] and [-0-9a-zA-Z] : the class of the host labels
LabelClass == Lower \cup Upper \cup Digit \cup {"-"}

\* s[a..k] matches ([-a-zA-Z0-9]+\.)+ : labels, each closed by a dot
MatchesLabels(s, a, k) ==
    /\ a <= k
    /\ s[a] \in LabelClass
    /\ s[k] = "."
    /\ \A j \in a..k : s[j] \in LabelClass \/ s[j] = "."
    /\ \A j \in a..(k - 1) : ~(s[j] = "." /\ s[j + 1] = ".")

\* emailRegExp without the host part: /[-a-zA-Z0-9.]+@/
emailRegExpWithoutHost(s) ==
    \E i \in 2..Len(s) : s[i] = "@" /\ s[i - 1] \in LocalClass

\* username.match(emailRegExp) is not null.  The expression is not anchored:
\* it matches when some part of the text has one character of the local
\* class, an "@", one or more dotted labels and two more label characters.
emailRegExp(s) ==
    \E i \in 2..Len(s) :
        /\ s[i] = "@"
        /\ s[i - 1] \in LocalClass
        /\ \E k \in (i + 1)..(Len(s) - 2) :
              /\ MatchesLabels(s, i + 1, k)
              /\ s[k + 1] \in LabelClass
              /\ s[k + 2] \in LabelClass

\* String.prototype.indexOf: the first position (from 0) of x in s, or -1
indexOf(s, x) ==
    LET at == {p \in 0..(Len(s) - Len(x)) : SubSeq(s, p + 1, p + Len(x)) = x}
    IN  IF at = {} THEN -1 ELSE CHOOSE p \in at : \A q \in at : p <= q

\* String.prototype.split with a one-character separator
RECURSIVE split(_, _)
split(s, sep) ==
    LET at == {p \in 1..Len(s) : s[p] = sep}
    IN  IF at = {} THEN <<s>>
        ELSE LET p == CHOOSE p \in at : \A q \in at : p <= q
             IN  <<SubSeq(s, 1, p - 1)>> \o split(SubSeq(s, p + 1, Len(s)), sep)

\* Array.prototype.join
RECURSIVE join(_, _)
join(list, sep) ==
    IF Len(list) = 0 THEN <<>>
    ELSE IF Len(list) = 1 THEN list[1]
    ELSE list[1] \o sep \o join(Tail(list), sep)

(***************************************************************************)
(* The inputs                                                              *)
(***************************************************************************)

ExampleCom == <<"e", "x", "a", "m", "p", "l", "e", ".", "c", "o", "m">>

CorpOrg == <<"c", "o", "r", "p", ".", "o", "r", "g">>

WwwExampleCom == <<"w", "w", "w", ".">> \o ExampleCom

\* "corp.org,www.example.com"
CorpOrgWwwExampleCom == CorpOrg \o <<",">> \o WwwExampleCom

Bob == <<"b", "o", "b">>

BobAt == <<"b", "o", "b", "@">>

BobAtAtX == <<"b", "o", "b", "@", "@", "x">>

AliceAt == <<"a", "l", "i", "c", "e", "@">>

AliceExampleCom == AliceAt \o ExampleCom

AliceMailExampleCom == AliceAt \o <<"m", "a", "i", "l", ".">> \o ExampleCom

AliceExampleComEvilOrg ==
    AliceAt \o ExampleCom \o <<".", "e", "v", "i", "l", ".", "o", "r", "g">>

AliceOtherOrg == AliceAt \o <<"o", "t", "h", "e", "r", ".", "o", "r", "g">>

XAtYAtABc == <<"x", "@", "y", "@", "a", ".", "b", "c">>

Usernames ==
    {Bob, BobAt, BobAtAtX, AliceExampleCom, AliceMailExampleCom,
     AliceExampleComEvilOrg, AliceOtherOrg, XAtYAtABc}

XAtEAtABc == <<"x", "@", "e", "@", "a", ".", "b", "c">>

AtAtAAtBCd == <<"@", "@", "a", "@", "b", ".", "c", "d">>

\* user names with more than one "@" that pass emailRegExp
ManyAtUsernames == {XAtYAtABc, XAtEAtABc, AtAtAAtBCd}

Password == <<"p", "w">>

\* The attributes of a decoded packet: User-Name may be absent.
AttributeSets ==
    {("User-Name" :> u) @@ ("User-Password" :> Password) : u \in Usernames}
        \cup {"User-Password" :> Password}

\* The datagrams: bytes the codec cannot decode with the secret, packets of
\* another code, and Access-Request packets.
Messages ==
    {[kind |-> "truncated"], [kind |-> "wrong-secret"]}
        \cup {[kind |-> "packet", code |-> "Accounting-Request",
               attributes |-> ("User-Name" :> AliceExampleCom)
                                  @@ ("User-Password" :> Password)]}
        \cup {[kind |-> "packet", code |-> "Access-Request", attributes |-> a] :
                 a \in AttributeSets}

\* Access-Request packets of the user names with more than one "@"
ManyAtMessages ==
    {[kind |-> "packet", code |-> "Access-Request",
      attributes |-> ("User-Name" :> u) @@ ("User-Password" :> Password)] :
         u \in ManyAtUsernames}

\* The source of a datagram, as the 'message' listener gets it: every
\* datagram comes from a peer of its own, the r-th from the r-th.
Rinfo(r) ==
    [address |-> IF r = 1 THEN "10.0.0.1" ELSE IF r = 2 THEN "10.0.0.2" ELSE "10.0.0.3",
     port |-> 40000 + r]

\* The options of createServer: the bin script always passes secret and
\* acceptDomains (both demanded), which may be the empty text; the library
\* also takes options without acceptDomains.
OptionsSets ==
    {("secret" :> "s3cret") @@ ("acceptDomains" :> ExampleCom),
     ("secret" :> "s3cret") @@ ("acceptDomains" :> CorpOrgWwwExampleCom),
     ("secret" :> "s3cret") @@ ("acceptDomains" :> <<>>),
     "secret" :> "s3cret"}

(***************************************************************************)
(* The collaborators: the radius codec, the socket, the event emitter      *)
(***************************************************************************)

\* radius.decode({packet: msg, secret: options.secret}): the decoded packet,
\* or an exception for bytes that are no packet under the secret.
decode(msg) ==
    IF msg.kind = "packet"
    THEN [threw |-> FALSE, packet |-> [code |-> msg.code, attributes |-> msg.attributes]]
    ELSE [threw |-> TRUE, ex |-> <<"Error: ", msg.kind>>]

\* radius.encode_response({packet, code, secret}): r stands for the decoded
\* packet of the r-th datagram, which the response is correlated to.
encode_response(r, code, secret) == [packet |-> r, code |-> code, secret |-> secret]

\* server.emit(event, arg)
Emit(event, arg) == [op |-> "emit", event |-> event, arg |-> arg]

\* server.send(response, 0, response.length, port, address, callback)
Send(response, port, address) ==
    [op |-> "send", response |-> response, port |-> port, address |-> address]

\* the text of the 'radius-error' of a user name that is no e-mail address
EmailErrorMessage == <<"The username was not an email address">>

\* the message without the list of the accepted domains
DomainErrorMessageWithoutList(username, acceptDomains) ==
    <<"Username ">> \o username \o <<" is not in an accepted domain.">>

\* the text of the 'radius-error' of a user name outside the accepted domains
DomainErrorMessage(username, acceptDomains) ==
    <<"Username ">> \o username
        \o <<" is not in an accepted domain. The complete list of allowed domains is ">>
        \o join(acceptDomains, <<",", " ">>)

\* the check of the code left out
CodeCheckMissing(packet) == FALSE

\* packet.code != 'Access-Request'
CodeIsNotAccessRequest(packet) == packet.code # "Access-Request"

\* the list split without the test of options.acceptDomains for emptiness
AcceptDomainsAlwaysSplit(opts) ==
    IF "acceptDomains" \in DOMAIN opts
    THEN split(opts["acceptDomains"], ",")
    ELSE <<>>

\* options.acceptDomains ? options.acceptDomains.split(',') : []
AcceptDomains(opts) ==
    IF "acceptDomains" \in DOMAIN opts /\ opts["acceptDomains"] # <<>>
    THEN split(opts["acceptDomains"], ",")
    ELSE <<>>

\* everything after the first "@": username.slice(username.indexOf('@') + 1)
DomainAfterFirstAt(username) ==
    SubSeq(username, indexOf(username, <<"@">>) + 2, Len(username))

\* username.split('@')[1]
Domain(username) == split(username, "@")[2]

\* the filter with receiver and argument of indexOf exchanged:
\* domain.indexOf(d) >= 0
DomainRefusedEntryInDomain(acceptDomains, domain) ==
    LET Keep(d) == indexOf(domain, d) >= 0
    IN  Len(SelectSeq(acceptDomains, Keep)) = 0

\* acceptDomains.filter(function(d){ return d.indexOf(domain) >= 0; }).length == 0
DomainRefused(acceptDomains, domain) ==
    LET Keep(d) == indexOf(d, domain) >= 0
    IN  Len(SelectSeq(acceptDomains, Keep)) = 0

\* the object of the 'radius' event of the two validation rejections
RejectedOutcome(username) == [username |-> username, status |-> FALSE]

\* the two branches of the conditional exchanged
ReplyCodeBranchesExchanged(args) ==
    IF args["err"] = "null" /\ args["obj"].status THEN "Access-Reject" ELSE "Access-Accept"

\* !err && obj.status ? 'Access-Accept' : 'Access-Reject'
ReplyCode(args) ==
    IF args["err"] = "null" /\ args["obj"].status THEN "Access-Accept" ELSE "Access-Reject"

\* the object of a failure built without the user name of the request
ReplyOutcomeWithoutUsername(args, username) ==
    IF args["err"] # "null"
    THEN [username |-> <<>>, status |-> FALSE]
    ELSE args["obj"]

\* the object of a failure carrying the error
ReplyOutcomeWithError(args, username) ==
    IF args["err"] # "null"
    THEN [username |-> username, status |-> FALSE, error |-> args["err"]]
    ELSE args["obj"]

\* if (err) { obj = {username: username, status: false} } ; the object emitted
ReplyOutcome(args, username) ==
    IF args["err"] # "null"
    THEN [username |-> username, status |-> FALSE]
    ELSE args["obj"]

\* callback(err)
CallbackErr(err) == "err" :> err

\* callback(null, {username: username, status: true})
CallbackOk(username) ==
    ("err" :> "null") @@ ("obj" :> [username |-> username, status |-> TRUE])

(***************************************************************************)
(* The 'message' listener                                                  *)
(***************************************************************************)

\* the reply function answering the source of the latest datagram, as it
\* would with rinfo shared between the calls of the listener
ReplyToLatestSource(r, args, rinfo, opts) ==
    [log |-> <<[op |-> "callback", args |-> args],
               Send(encode_response(r, ReplyCode(args), opts["secret"]),
                    reqs[Len(reqs)].rinfo.port, reqs[Len(reqs)].rinfo.address)>>,
     pending |-> <<[site |-> "reply", args |-> args]>>]

\* the reply function emitting the 'radius' event itself, before the send
ReplyEmitsBeforeSend(r, args, rinfo, opts) ==
    [log |-> <<[op |-> "callback", args |-> args],
               Emit("radius", ReplyOutcome(args, reqs[r].msg.attributes["User-Name"])),
               Send(encode_response(r, ReplyCode(args), opts["secret"]),
                    rinfo.port, rinfo.address)>>,
     pending |-> <<>>]

\* The reply function handed to authenticate, called with args for
\* datagram r: what it appends to the log and the send callback it leaves.
Reply(r, args, rinfo, opts) ==
    [log |-> <<[op |-> "callback", args |-> args],
               Send(encode_response(r, ReplyCode(args), opts["secret"]),
                    rinfo.port, rinfo.address)>>,
     pending |-> <<[site |-> "reply", args |-> args]>>]

\* The 'message' listener for the r-th datagram: its log, the send callback
\* it leaves, the connection it opens, and whether it threw.
OnMessage(r, msg, rinfo, opts) ==
    LET d == decode(msg)
        quiet == [log |-> <<>>, pending |-> <<>>, conn |-> "none", threw |-> FALSE]
    IN
    IF d.threw
    THEN [quiet EXCEPT !.log = <<Emit("radius-error", [message |-> d.ex])>>]
    ELSE IF CodeIsNotAccessRequest(d.packet)
    THEN [quiet EXCEPT !.log =
            <<Emit("radius-error",
                   [message |-> <<"Packet code error: not \"Access-Request\"">>])>>]
    ELSE IF "User-Name" \notin DOMAIN d.packet.attributes
    THEN \* username is undefined: username.match throws a TypeError
         [quiet EXCEPT !.log = <<[op |-> "throw", ex |-> "TypeError"]>>,
                       !.threw = TRUE]
    ELSE
    LET username == d.packet.attributes["User-Name"]
        password == d.packet.attributes["User-Password"]
    IN
    IF ~emailRegExp(username)
    THEN [quiet EXCEPT
            !.log = <<Emit("radius-error", [message |-> EmailErrorMessage]),
                      Send(encode_response(r, "Access-Reject", opts["secret"]),
                           rinfo.port, rinfo.address)>>,
            !.pending = <<[site |-> "email", username |-> username]>>]
    ELSE
    LET acceptDomains == AcceptDomains(opts)
        domain == Domain(username)
    IN
    IF DomainRefused(acceptDomains, domain)
    THEN [quiet EXCEPT
            !.log = <<Emit("radius-error",
                           [message |-> DomainErrorMessage(username, acceptDomains)]),
                      Send(encode_response(r, "Access-Reject", opts["secret"]),
                           rinfo.port, rinfo.address)>>,
            !.pending = <<[site |-> "domain", username |-> username]>>]
    ELSE \* authenticate(username, password, options, reply): a new
         \* SMTPConnection, its listeners registered, conn.connect called
         [quiet EXCEPT
            !.log = <<[op |-> "authenticate", username |-> username,
                       password |-> password]>>,
            !.conn = "connecting"]

\* the user name of the r-th datagram, as the closures of its handler hold it
UsernameOf(r) == reqs[r].msg.attributes["User-Name"]

(***************************************************************************)
(* The state machine                                                       *)
(***************************************************************************)

Init ==
    /\ options \in OptionsSets
    /\ server = "listening"
    /\ reqs = <<>>
    /\ conn = <<>>
    /\ pending = <<>>
    /\ log = <<>>

\* the listener kept from running while a verification is under way
MessageWaitsForVerification(msg) ==
    /\ server = "listening"
    /\ Len(reqs) < MaxDatagrams
    /\ \A q \in 1..Len(reqs) : conn[q] \notin {"connecting", "login"}
    /\ LET r == Len(reqs) + 1
           rinfo == Rinfo(r)
           h == OnMessage(r, msg, rinfo, options)
       IN  /\ reqs' = Append(reqs, [msg |-> msg, rinfo |-> rinfo])
           /\ log' = Append(log, h.log)
           /\ pending' = Append(pending, h.pending)
           /\ conn' = Append(conn, h.conn)
           /\ server' = IF h.threw THEN "crashed" ELSE server
    /\ UNCHANGED options

\* the listener dropping a datagram equal to one it has handled before
MessageDeduplicated(msg) ==
    /\ server = "listening"
    /\ Len(reqs) < MaxDatagrams
    /\ LET r == Len(reqs) + 1
           rinfo == Rinfo(r)
           h == IF \E q \in 1..Len(reqs) : reqs[q].msg = msg
                THEN [log |-> <<>>, pending |-> <<>>, conn |-> "none", threw |-> FALSE]
                ELSE OnMessage(r, msg, rinfo, options)
       IN  /\ reqs' = Append(reqs, [msg |-> msg, rinfo |-> rinfo])
           /\ log' = Append(log, h.log)
           /\ pending' = Append(pending, h.pending)
           /\ conn' = Append(conn, h.conn)
           /\ server' = IF h.threw THEN "crashed" ELSE server
    /\ UNCHANGED options

\* A datagram arrives: the 'message' listener runs.
Message(msg) ==
    /\ server = "listening"
    /\ Len(reqs) < MaxDatagrams
    /\ LET r == Len(reqs) + 1
           rinfo == Rinfo(r)
           h == OnMessage(r, msg, rinfo, options)
       IN  /\ reqs' = Append(reqs, [msg |-> msg, rinfo |-> rinfo])
           /\ log' = Append(log, h.log)
           /\ pending' = Append(pending, h.pending)
           /\ conn' = Append(conn, h.conn)
           /\ server' = IF h.threw THEN "crashed" ELSE server
    /\ UNCHANGED options

\* conn.connect calls back: conn.login(auth, ...) is called.
Connected(r) ==
    /\ server = "listening"
    /\ conn[r] = "connecting"
    /\ conn' = [conn EXCEPT ![r] = "login"]
    /\ log' = [log EXCEPT ![r] = Append(@, [op |-> "login"])]
    /\ UNCHANGED <<options, server, reqs, pending>>

\* conn.login calls back, with an error or without: the reply function is
\* called with the error or with the success object, then conn.quit().
LoggedIn(r, err) ==
    /\ server = "listening"
    /\ conn[r] = "login"
    /\ LET args == IF err # "null" THEN CallbackErr(err) ELSE CallbackOk(UsernameOf(r))
           h == Reply(r, args, reqs[r].rinfo, options)
       IN  /\ log' = [log EXCEPT ![r] =
                        Append(@, [op |-> "login-callback", err |-> err]) \o h.log
                            \o <<[op |-> "quit"]>>]
           /\ pending' = [pending EXCEPT ![r] = @ \o h.pending]
    /\ conn' = [conn EXCEPT ![r] = "quit"]
    /\ UNCHANGED <<options, server, reqs>>

\* The connection emits 'error' (it does so once, then it is closed): the
\* reply function is called with the error.
ConnError(r, err) ==
    /\ server = "listening"
    /\ conn[r] \in {"connecting", "login", "quit"}
    /\ LET h == Reply(r, CallbackErr(err), reqs[r].rinfo, options)
       IN  /\ log' = [log EXCEPT ![r] = Append(@, [op |-> "on-error", err |-> err]) \o h.log]
           /\ pending' = [pending EXCEPT ![r] = @ \o h.pending]
    /\ conn' = [conn EXCEPT ![r] = "closed"]
    /\ UNCHANGED <<options, server, reqs>>

\* After conn.quit() the upstream closes the connection.
ConnEnd(r) ==
    /\ server = "listening"
    /\ conn[r] = "quit"
    /\ conn' = [conn EXCEPT ![r] = "closed"]
    /\ UNCHANGED <<options, server, reqs, pending, log>>

\* The callback of a server.send is called: the 'radius' event is emitted.
SendCallback(r, i) ==
    /\ server = "listening"
    /\ i \in 1..Len(pending[r])
    /\ LET c == pending[r][i]
           obj == IF c.site = "reply"
                  THEN ReplyOutcome(c.args, UsernameOf(r))
                  ELSE RejectedOutcome(c.username)
       IN  log' = [log EXCEPT ![r] = Append(@, Emit("radius", obj))]
    /\ pending' = [pending EXCEPT ![r] =
                     SubSeq(@, 1, i - 1) \o SubSeq(@, i + 1, Len(@))]
    /\ UNCHANGED <<options, server, reqs, conn>>

LoginErrors == {"null", "EAUTH"}

TransportErrors == {"ETIMEDOUT"}

Next ==
    \/ \E msg \in Messages : Message(msg)
    \/ \E r \in 1..Len(reqs) : Connected(r)
    \/ \E r \in 1..Len(reqs), err \in LoginErrors : LoggedIn(r, err)
    \/ \E r \in 1..Len(reqs), err \in TransportErrors : ConnError(r, err)
    \/ \E r \in 1..Len(reqs) : ConnEnd(r)
    \/ \E r \in 1..Len(reqs) : \E i \in 1..Len(pending[r]) : SendCallback(r, i)

\* The number of datagrams received when the user names are drawn from the
\* wider set.
MaxNamedDatagrams == 1

\* A datagram arrives, its user name one of the wider set.
MessageNamed(msg) ==
    /\ server = "listening"
    /\ Len(reqs) < MaxNamedDatagrams
    /\ LET r == Len(reqs) + 1
           rinfo == Rinfo(r)
           h == OnMessage(r, msg, rinfo, options)
       IN  /\ reqs' = Append(reqs, [msg |-> msg, rinfo |-> rinfo])
           /\ log' = Append(log, h.log)
           /\ pending' = Append(pending, h.pending)
           /\ conn' = Append(conn, h.conn)
           /\ server' = IF h.threw THEN "crashed" ELSE server
    /\ UNCHANGED options

NextNames ==
    \/ \E msg \in Messages \cup ManyAtMessages : MessageNamed(msg)
    \/ \E r \in 1..Len(reqs) : Connected(r)
    \/ \E r \in 1..Len(reqs), err \in LoginErrors : LoggedIn(r, err)
    \/ \E r \in 1..Len(reqs), err \in TransportErrors : ConnError(r, err)
    \/ \E r \in 1..Len(reqs) : ConnEnd(r)
    \/ \E r \in 1..Len(reqs) : \E i \in 1..Len(pending[r]) : SendCallback(r, i)

\* The server fed with user names of the wider set.
SpecNames == Init /\ [][NextNames]_vars

Spec == Init /\ [][Next]_vars

(***************************************************************************)
(* Vocabulary of the properties                                            *)
(***************************************************************************)

Handled == 1..Len(reqs)

\* the r-th datagram decoded as an Access-Request
IsAccessRequest(r) ==
    /\ reqs[r].msg.kind = "packet"
    /\ reqs[r].msg.code = "Access-Request"

HasUsername(r) ==
    /\ reqs[r].msg.kind = "packet"
    /\ "User-Name" \in DOMAIN reqs[r].msg.attributes

IsSend(e) == e.op = "send"

IsSendOf(e, code) == e.op = "send" /\ e.response.code = code

IsOutcome(e) == e.op = "emit" /\ e.event = "radius"

IsOutcomeOf(e, status) == e.op = "emit" /\ e.event = "radius" /\ e.arg.status = status

IsErrorEvent(e) == e.op = "emit" /\ e.event = "radius-error"

IsVerifierCall(e) == e.op = "authenticate"

Count(r, P(_)) == Cardinality({i \in 1..Len(log[r]) : P(log[r][i])})

Some(r, P(_)) == \E i \in 1..Len(log[r]) : P(log[r][i])

\* x occurs in s
Contains(s, x) ==
    \E a \in 1..(Len(s) - Len(x) + 1) : \A k \in 1..Len(x) : s[a + k - 1] = x[k]

\* nothing of the r-th datagram is still running
Settled(r) == conn[r] \in {"none", "closed"} /\ pending[r] = <<>>

\* the response of datagram r, with the given code, sent to its source
ResponseTo(r, code) ==
    Send([packet |-> r, code |-> code, secret |-> options["secret"]],
         reqs[r].rinfo.port, reqs[r].rinfo.address)

UpstreamAccepted(r) == \E i \in 1..Len(log[r]) :
    log[r][i].op = "login-callback" /\ log[r][i].err = "null"

UpstreamRejected(r) == \E i \in 1..Len(log[r]) :
    log[r][i].op = "login-callback" /\ log[r][i].err # "null"

UpstreamError(r) == \E i \in 1..Len(log[r]) : log[r][i].op = "on-error"

\* the reply callbacks of r whose send has not completed, by kind of result
PendingReplies(r, failed) ==
    Cardinality({i \in 1..Len(pending[r]) :
        /\ pending[r][i].site = "reply"
        /\ (pending[r][i].args["err"] # "null") = failed})

(***************************************************************************)
(* C1: every decoded Access-Request gets exactly one response, sent to its *)
(* source, and exactly one 'radius' event: never two, and one of each once *)
(* nothing of the datagram is still running.                               *)
(***************************************************************************)
C1_ExactlyOneResponseAndOutcome ==
    \A r \in Handled : IsAccessRequest(r) =>
        /\ Count(r, IsSend) <= 1
        /\ Count(r, IsOutcome) <= 1
        /\ Settled(r) => /\ Count(r, IsSend) = 1
                         /\ Count(r, IsOutcome) = 1
                         /\ \A i \in 1..Len(log[r]) : IsSend(log[r][i]) =>
                                /\ log[r][i].port = reqs[r].rinfo.port
                                /\ log[r][i].address = reqs[r].rinfo.address

(***************************************************************************)
(* C2: a datagram that does not decode, or decodes to another code than    *)
(* Access-Request, causes exactly one 'radius-error' event and nothing     *)
(* else: no response, no 'radius' event, no call of authenticate.          *)
(***************************************************************************)
C2_UndecodableOnlyReported ==
    \A r \in Handled : ~IsAccessRequest(r) =>
        /\ Count(r, IsErrorEvent) = 1
        /\ Count(r, IsSend) = 0
        /\ Count(r, IsOutcome) = 0
        /\ Count(r, IsVerifierCall) = 0
        /\ Len(log[r]) = 1
        /\ conn[r] = "none"
        /\ pending[r] = <<>>

C2_Witness ==
    \E r1 \in Handled, r2 \in Handled :
        /\ reqs[r1].msg.kind = "wrong-secret"
        /\ reqs[r2].msg.kind = "packet"
        /\ reqs[r2].msg.code = "Accounting-Request"
        /\ Count(r1, IsErrorEvent) = 1
        /\ Count(r2, IsErrorEvent) = 1

C4_EntryOccursInDomain ==
    \A r \in Handled : (IsAccessRequest(r) /\ HasUsername(r) /\ emailRegExp(UsernameOf(r))) =>
        LET acceptDomains == AcceptDomains(options)
            domain == Domain(UsernameOf(r))
        IN  Some(r, IsVerifierCall) <=>
                \E i \in 1..Len(acceptDomains) : Contains(domain, acceptDomains[i])

(***************************************************************************)
(* C4, amended: a request passes the domain check iff its domain occurs in *)
(* some entry of the accepted domains; with the list "example.com" the     *)
(* domains mail.example.com and example.com.evil.org are refused with an   *)
(* Access-Reject and never reach the verifier.                             *)
(***************************************************************************)
C4_DomainOccursInEntry ==
    \A r \in Handled : (IsAccessRequest(r) /\ HasUsername(r) /\ emailRegExp(UsernameOf(r))) =>
        LET acceptDomains == AcceptDomains(options)
            domain == Domain(UsernameOf(r))
        IN  /\ Some(r, IsVerifierCall) <=>
                \E i \in 1..Len(acceptDomains) : Contains(acceptDomains[i], domain)
            /\ ( /\ "acceptDomains" \in DOMAIN options
                 /\ options["acceptDomains"] = ExampleCom
                 /\ UsernameOf(r) \in {AliceMailExampleCom, AliceExampleComEvilOrg} )
               => /\ ~Some(r, IsVerifierCall)
                  /\ log[r][2] = ResponseTo(r, "Access-Reject")

C4_Witness ==
    /\ "acceptDomains" \in DOMAIN options
    /\ options["acceptDomains"] = ExampleCom
    /\ \E r1 \in Handled, r2 \in Handled :
        /\ HasUsername(r1) /\ UsernameOf(r1) = AliceMailExampleCom
        /\ IsAccessRequest(r1) /\ ~Some(r1, IsVerifierCall)
        /\ HasUsername(r2) /\ UsernameOf(r2) = AliceExampleCom
        /\ IsAccessRequest(r2) /\ Some(r2, IsVerifierCall)

(***************************************************************************)
(* C5: a request with an e-mail user name whose domain occurs in no entry  *)
(* of the accepted domains is answered by a 'radius-error' event whose     *)
(* message holds the domain and every entry of the list, then an           *)
(* Access-Reject sent to its source, then (when the send has completed)    *)
(* one 'radius' event with its user name and status false; authenticate is *)
(* not called for it.                                                      *)
(***************************************************************************)
C5_RefusedDomainRejected ==
    \A r \in Handled : (IsAccessRequest(r) /\ HasUsername(r) /\ emailRegExp(UsernameOf(r))) =>
        LET acceptDomains == AcceptDomains(options)
            domain == Domain(UsernameOf(r))
        IN  (\A i \in 1..Len(acceptDomains) : ~Contains(acceptDomains[i], domain)) =>
            /\ Len(log[r]) >= 2
            /\ IsErrorEvent(log[r][1])
            /\ Contains(log[r][1].arg.message, domain)
            /\ \A i \in 1..Len(acceptDomains) :
                    Contains(log[r][1].arg.message, acceptDomains[i])
            /\ log[r][2] = ResponseTo(r, "Access-Reject")
            /\ Len(log[r]) = IF pending[r] = <<>> THEN 3 ELSE 2
            /\ Len(log[r]) = 3 =>
                    log[r][3] = Emit("radius", [username |-> UsernameOf(r), status |-> FALSE])
            /\ Count(r, IsVerifierCall) = 0
            /\ conn[r] = "none"

C5_Witness ==
    /\ Len(AcceptDomains(options)) = 2
    /\ \E r \in Handled :
        /\ IsAccessRequest(r) /\ HasUsername(r)
        /\ UsernameOf(r) = AliceOtherOrg
        /\ Len(log[r]) = 3
        /\ IsOutcomeOf(log[r][3], FALSE)

(***************************************************************************)
(* C6: a request whose user name is no e-mail address (bob, bob@, bob@@x   *)
(* among them) is answered by the 'radius-error' event of the e-mail check *)
(* and an Access-Reject; the domain check reports nothing and authenticate *)
(* is not called for it.                                                   *)
(***************************************************************************)
C6_NotAnEmailRejected ==
    \A r \in Handled :
        ( /\ IsAccessRequest(r)
          /\ HasUsername(r)
          /\ (~emailRegExp(UsernameOf(r)) \/ UsernameOf(r) \in {Bob, BobAt, BobAtAtX}) ) =>
            /\ Len(log[r]) >= 2
            /\ log[r][1] = Emit("radius-error", [message |-> EmailErrorMessage])
            /\ log[r][2] = ResponseTo(r, "Access-Reject")
            /\ Count(r, IsErrorEvent) = 1
            /\ Count(r, IsSend) = 1
            /\ Count(r, IsVerifierCall) = 0
            /\ conn[r] = "none"

C6_Witness ==
    \E r1 \in Handled, r2 \in Handled :
        /\ IsAccessRequest(r1) /\ HasUsername(r1) /\ UsernameOf(r1) = BobAt
        /\ IsAccessRequest(r2) /\ HasUsername(r2) /\ UsernameOf(r2) = BobAtAtX
        /\ Count(r1, IsSend) = 1
        /\ Count(r2, IsSend) = 1

(***************************************************************************)
(* C7: whatever datagram was processed, the server is still receiving and  *)
(* no handler has ended in an exception.                                   *)
(***************************************************************************)
C7_ServerKeepsReceiving ==
    /\ server = "listening"
    /\ \A r \in Handled : ~Some(r, LAMBDA e : e.op = "throw")

C9_QuitBeforeCallback ==
    \A r \in Handled :
        /\ \A i \in 1..Len(log[r]) : log[r][i].op = "callback" =>
                \E j \in 1..(i - 1) : log[r][j].op = "quit"
        /\ conn[r] = "closed" => Some(r, LAMBDA e : e.op = "quit")

\* the events of datagram r, in order
Events(r) == SelectSeq(log[r], LAMBDA e : e.op = "emit")

\* r was refused by the upstream and its connection had no error; or the
\* other way round; and all its sends have completed
RejectedOnly(r) ==
    UpstreamRejected(r) /\ ~UpstreamError(r) /\ pending[r] = <<>>

TransportErrorOnly(r) ==
    UpstreamError(r) /\ ~UpstreamRejected(r) /\ ~UpstreamAccepted(r) /\ pending[r] = <<>>

(***************************************************************************)
(* C10, as claimed: the events of a request refused by the upstream differ *)
(* from the events of a request of the same user name whose connection had *)
(* an error.                                                               *)
(***************************************************************************)
C10_EventsTellCausesApart ==
    \A r1 \in Handled, r2 \in Handled :
        (RejectedOnly(r1) /\ TransportErrorOnly(r2) /\ UsernameOf(r1) = UsernameOf(r2)) =>
            Events(r1) # Events(r2)

(***************************************************************************)
(* C10, amended: a request refused by the upstream and a request of the    *)
(* same user name whose connection had an error produce the same events,   *)
(* one 'radius' event with the user name and status false and no           *)
(* 'radius-error'; the response is Access-Reject for both.                 *)
(***************************************************************************)
C10_EventsSameForBothCauses ==
    \A r1 \in Handled, r2 \in Handled :
        (RejectedOnly(r1) /\ TransportErrorOnly(r2) /\ UsernameOf(r1) = UsernameOf(r2)) =>
            /\ Events(r1) = Events(r2)
            /\ Events(r1) = <<Emit("radius", [username |-> UsernameOf(r1), status |-> FALSE])>>
            /\ \A r \in {r1, r2} : \A i \in 1..Len(log[r]) :
                    IsSend(log[r][i]) => log[r][i] = ResponseTo(r, "Access-Reject")

C10_Witness ==
    \E r1 \in Handled, r2 \in Handled :
        /\ RejectedOnly(r1)
        /\ TransportErrorOnly(r2)
        /\ UsernameOf(r1) = UsernameOf(r2)
        /\ reqs[r1].rinfo # reqs[r2].rinfo

(***************************************************************************)
(* C11: the 'radius' event of an accepted request carries the three fields *)
(* username, domain and status, with status true.                          *)
(***************************************************************************)
C11_AcceptedOutcomeHasDomain ==
    \A r \in Handled : \A i \in 1..Len(log[r]) :
        IsOutcomeOf(log[r][i], TRUE) =>
            /\ DOMAIN log[r][i].arg = {"username", "domain", "status"}
            /\ log[r][i].arg.username = UsernameOf(r)

(***************************************************************************)
(* C12: the callback given to one call of authenticate is called at most   *)
(* once.                                                                   *)
(***************************************************************************)
C12_CallbackAtMostOnce ==
    \A r \in Handled : Count(r, LAMBDA e : e.op = "callback") <= 1

\* the entries of log[r] up to the i-th that satisfy P
CountUpTo(r, i, P(_)) == Cardinality({j \in 1..i : P(log[r][j])})

(***************************************************************************)
(* C13: within one datagram the 'radius-error' event of a validation       *)
(* rejection comes before the Access-Reject is handed to the socket, and   *)
(* every 'radius' event is emitted by the completion of a send of that     *)
(* datagram: it comes after a response of its own status, and there are    *)
(* never more 'radius' events than sends before them.                      *)
(***************************************************************************)
C13_EventsOrdered ==
    \A r \in Handled :
        /\ \A i \in 1..Len(log[r]), j \in 1..Len(log[r]) :
              (IsErrorEvent(log[r][i]) /\ IsSend(log[r][j])) => i < j
        /\ (IsAccessRequest(r) /\ conn[r] = "none" /\ Len(log[r]) >= 2) =>
              IsErrorEvent(log[r][1]) /\ IsSendOf(log[r][2], "Access-Reject")
        /\ Count(r, IsOutcome) + Len(pending[r]) = Count(r, IsSend)
        /\ \A i \in 1..Len(log[r]) : IsOutcome(log[r][i]) =>
              /\ CountUpTo(r, i, IsOutcome) <= CountUpTo(r, i - 1, IsSend)
              /\ \E j \in 1..(i - 1) :
                    IsSendOf(log[r][j], IF log[r][i].arg.status
                                        THEN "Access-Accept" ELSE "Access-Reject")

C13_Witness ==
    \E r1 \in Handled, r2 \in Handled :
        /\ IsAccessRequest(r1) /\ conn[r1] = "none" /\ Len(log[r1]) = 3
        /\ IsOutcome(log[r1][3])
        /\ Count(r2, IsVerifierCall) = 1
        /\ Count(r2, IsSend) = 2
        /\ Count(r2, IsOutcome) = 2

\* the verification of datagram r has not delivered its result yet
VerificationPending(r) == conn[r] \in {"connecting", "login"}

(***************************************************************************)
(* C14: a datagram whose verification is pending blocks nothing: while the *)
(* server runs, the next datagram can be received, and every connection    *)
(* and every send of another datagram can take its next step.              *)
(***************************************************************************)
C14_PendingVerificationBlocksNothing ==
    \A a \in Handled : (VerificationPending(a) /\ server = "listening") =>
        /\ Len(reqs) < MaxDatagrams => ENABLED (\E msg \in Messages : Message(msg))
        /\ \A b \in Handled \ {a} :
              /\ conn[b] = "connecting" => ENABLED Connected(b)
              /\ conn[b] = "login" => ENABLED LoggedIn(b, "null")
              /\ pending[b] # <<>> => ENABLED SendCallback(b, 1)

\* datagram a, received first, is still in verification and has no response;
\* datagram b, received later, went through verification and is answered
C14_Witness ==
    \E a \in Handled, b \in Handled :
        /\ a < b
        /\ VerificationPending(a)
        /\ Count(a, IsSend) = 0
        /\ Count(b, IsVerifierCall) = 1
        /\ Count(b, IsSend) = 1
        /\ Count(b, IsOutcome) = 1
        /\ Settled(b)

(***************************************************************************)
(* C15: whatever the interleaving, every response of a datagram is         *)
(* correlated to its own packet, has the code of its own verification      *)
(* result, goes to its own source and to no other datagram's, and every    *)
(* 'radius' event and every call of authenticate of a datagram carries its *)
(* own user name.                                                          *)
(***************************************************************************)
C15_OwnPacketResultAndSource ==
    \A r \in Handled : \A i \in 1..Len(log[r]) :
        LET e == log[r][i] IN
        /\ IsSend(e) =>
              /\ e.response.packet = r
              /\ e.response.secret = options["secret"]
              /\ e.port = reqs[r].rinfo.port
              /\ e.address = reqs[r].rinfo.address
              /\ \A q \in Handled \ {r} :
                    e.port # reqs[q].rinfo.port /\ e.address # reqs[q].rinfo.address
              /\ Some(r, IsVerifierCall) =>
                    /\ i >= 3
                    /\ log[r][i - 1].op = "callback"
                    /\ log[r][i - 2].op \in {"login-callback", "on-error"}
                    /\ log[r][i - 1].args["err"] = log[r][i - 2].err
                    /\ e.response.code =
                          IF log[r][i - 2].err = "null" THEN "Access-Accept"
                          ELSE "Access-Reject"
        /\ (e.op = "callback" /\ e.args["err"] = "null") =>
              e.args["obj"].username = UsernameOf(r)
        /\ IsOutcome(e) => e.arg.username = UsernameOf(r)
        /\ IsVerifierCall(e) =>
              /\ e.username = UsernameOf(r)
              /\ e.password = reqs[r].msg.attributes["User-Password"]

\* two answered datagrams of different users and sources, the first of them
\* verified and accepted
C15_Witness ==
    \E a \in Handled, b \in Handled :
        /\ a < b
        /\ HasUsername(a) /\ HasUsername(b)
        /\ UsernameOf(a) # UsernameOf(b)
        /\ Some(a, LAMBDA e : IsSendOf(e, "Access-Accept"))
        /\ Some(a, LAMBDA e : IsOutcomeOf(e, TRUE))
        /\ Some(b, LAMBDA e : IsSendOf(e, "Access-Reject"))
        /\ Some(b, LAMBDA e : IsOutcomeOf(e, FALSE))

\* the position of the first "@" of u, Len(u) + 1 if there is none
FirstAt(u) ==
    IF \E p \in 1..Len(u) : u[p] = "@"
    THEN CHOOSE p \in 1..Len(u) : u[p] = "@" /\ \A q \in 1..(p - 1) : u[q] # "@"
    ELSE Len(u) + 1

\* u after its first "@"
AfterFirstAt(u) == SubSeq(u, FirstAt(u) + 1, Len(u))

\* u between its first "@" and its second, or its end
BetweenFirstAndSecondAt(u) == SubSeq(AfterFirstAt(u), 1, FirstAt(AfterFirstAt(u)) - 1)

\* datagram r is an Access-Request whose user name passes emailRegExp
EmailRequest(r) == IsAccessRequest(r) /\ HasUsername(r) /\ emailRegExp(UsernameOf(r))

(***************************************************************************)
(* C16, as claimed: the domain the allow-list check decides on is the user *)
(* name after its first "@": a request goes on to authenticate iff that    *)
(* text occurs in an entry of the list.                                    *)
(***************************************************************************)
C16_DomainIsAfterFirstAt ==
    \A r \in Handled : EmailRequest(r) =>
        LET acceptDomains == AcceptDomains(options) IN
        Some(r, IsVerifierCall) <=>
            \E i \in 1..Len(acceptDomains) :
                Contains(acceptDomains[i], AfterFirstAt(UsernameOf(r)))

(***************************************************************************)
(* C16, amended: the domain the allow-list check decides on is the user    *)
(* name between its first "@" and its second "@" (its end, when it has one *)
(* "@" only, and then it is the user name after its first "@").            *)
(***************************************************************************)
C16_DomainIsBetweenFirstAndSecondAt ==
    \A r \in Handled : EmailRequest(r) =>
        LET acceptDomains == AcceptDomains(options)
            u == UsernameOf(r)
        IN  /\ Some(r, IsVerifierCall) <=>
                  \E i \in 1..Len(acceptDomains) :
                      Contains(acceptDomains[i], BetweenFirstAndSecondAt(u))
            /\ Cardinality({p \in 1..Len(u) : u[p] = "@"}) = 1 =>
                  BetweenFirstAndSecondAt(u) = AfterFirstAt(u)

C16_Witness ==
    /\ AcceptDomains(options) = <<ExampleCom>>
    /\ \E r \in Handled :
        /\ EmailRequest(r)
        /\ UsernameOf(r) = XAtEAtABc
        /\ Some(r, IsVerifierCall)

(***************************************************************************)
(* C17: with no acceptDomains option, or an empty one, every request with  *)
(* an e-mail user name is answered by Access-Reject and authenticate is    *)
(* never called.                                                           *)
(***************************************************************************)
C17_EmptyListRefusesAll ==
    ("acceptDomains" \notin DOMAIN options \/ options["acceptDomains"] = <<>>) =>
        \A r \in Handled :
            /\ ~Some(r, IsVerifierCall)
            /\ conn[r] = "none"
            /\ EmailRequest(r) =>
                  /\ Len(log[r]) >= 2
                  /\ IsErrorEvent(log[r][1])
                  /\ log[r][2] = ResponseTo(r, "Access-Reject")
                  /\ Count(r, IsSend) = 1
                  /\ \A i \in 1..Len(log[r]) : IsOutcome(log[r][i]) =>
                        log[r][i].arg = [username |-> UsernameOf(r), status |-> FALSE]

C17_Witness ==
    /\ "acceptDomains" \in DOMAIN options
    /\ options["acceptDomains"] = <<>>
    /\ \E r \in Handled :
        /\ EmailRequest(r)
        /\ UsernameOf(r) = AtAtAAtBCd
        /\ Count(r, IsSend) = 1
        /\ Count(r, IsOutcome) = 1

\* what the upstream did for datagram r, in order
Upstream(r) == SelectSeq(log[r], LAMBDA e : e.op \in {"login-callback", "on-error"})

\* datagram r passes the e-mail check and the domain check
PassesChecks(r) ==
    /\ EmailRequest(r)
    /\ \E i \in 1..Len(AcceptDomains(options)) :
          Contains(AcceptDomains(options)[i], BetweenFirstAndSecondAt(UsernameOf(r)))

(***************************************************************************)
(* C18: every datagram that passes the e-mail and the domain check makes   *)
(* its own call of authenticate (one call per such datagram, none for the  *)
(* others), and two equal datagrams with the same answers of the upstream  *)
(* get the same response codes and the same 'radius' events.               *)
(***************************************************************************)
C18_NoCachingNoDeduplication ==
    /\ \A r \in Handled :
          Count(r, IsVerifierCall) = IF PassesChecks(r) THEN 1 ELSE 0
    /\ \A r1 \in Handled, r2 \in Handled :
          ( /\ r1 < r2
            /\ reqs[r1].msg = reqs[r2].msg
            /\ Upstream(r1) = Upstream(r2)
            /\ pending[r1] = <<>> /\ pending[r2] = <<>> ) =>
              /\ \A code \in {"Access-Accept", "Access-Reject"} :
                    Count(r1, LAMBDA e : IsSendOf(e, code))
                        = Count(r2, LAMBDA e : IsSendOf(e, code))
              /\ \A status \in BOOLEAN :
                    Count(r1, LAMBDA e : IsOutcomeOf(e, status))
                        = Count(r2, LAMBDA e : IsOutcomeOf(e, status))
              /\ {log[r1][i].arg : i \in {j \in 1..Len(log[r1]) : IsOutcome(log[r1][j])}}
                    = {log[r2][i].arg : i \in {j \in 1..Len(log[r2]) : IsOutcome(log[r2][j])}}
              /\ Count(r1, IsErrorEvent) = Count(r2, IsErrorEvent)

\* the same Access-Request twice, both verified and accepted, both answered
C18_Witness ==
    \E r1 \in Handled, r2 \in Handled :
        /\ r1 < r2
        /\ reqs[r1].msg = reqs[r2].msg
        /\ PassesChecks(r1)
        /\ Upstream(r1) = <<[op |-> "login-callback", err |-> "null"]>>
        /\ Upstream(r2) = Upstream(r1)
        /\ pending[r1] = <<>> /\ pending[r2] = <<>>
        /\ Count(r1, IsVerifierCall) = 1 /\ Count(r2, IsVerifierCall) = 1
        /\ Count(r1, IsOutcome) = 1 /\ Count(r2, IsOutcome) = 1

\* datagram r has its response sent and its 'radius' event emitted
Answered(r) == Some(r, IsSend) /\ Some(r, IsOutcome)

\* the verification of datagram r has completed before entry i of its log
CompletedBefore(r, i) ==
    CountUpTo(r, i - 1, LAMBDA e : e.op \in {"login-callback", "on-error"}) > 0

(***************************************************************************)
(* C19: every datagram that reached verification is answered, and no       *)
(* response for it is built before its verification has completed.  As a   *)
(* property of finite runs: a datagram that reached verification and is    *)
(* not answered yet always has a next step to take (the upstream reports   *)
(* connect, login or an error, or a send completes), and each of its       *)
(* responses comes after the completion of its verification.  A state      *)
(* that violates the first part has no step left for the datagram, so no   *)
(* progress of the upstream or of the socket answers it.                   *)
(***************************************************************************)
C19_StartedVerificationIsAnswered ==
    \A r \in Handled : Some(r, IsVerifierCall) =>
        /\ \A i \in 1..Len(log[r]) : IsSend(log[r][i]) => CompletedBefore(r, i)
        /\ ~Answered(r) =>
              \/ conn[r] = "connecting" /\ ENABLED Connected(r)
              \/ conn[r] = "login" /\ ENABLED LoggedIn(r, "null")
              \/ pending[r] # <<>> /\ ENABLED SendCallback(r, 1)

====
